---- MODULE Spec2Model ----
(***************************************************************************)
(* Model of weblate/addons/models.py: the add-on installation records      *)
(* (Addon), their event subscriptions (Event), scope resolution            *)
(* (AddonQuerySet.filter_component), and the event dispatch loops          *)
(* (handle_addon_event, post_update) with their error handling             *)
(* (handle_addon_error, Addon.disable, Addon.delete).                      *)
(***************************************************************************)
EXTENDS Integers, Sequences, FiniteSets, TLC

(***************************************************************************)
(* Bounds of the model.                                                    *)
(***************************************************************************)
\* Number of Addon rows ever inserted (primary keys 1..MaxAddons).
MaxAddons == 2

(***************************************************************************)
(* Values standing for Python's None / a missing row.                      *)
(***************************************************************************)
NoComponent == "None"
NoObject == "None"
NoCache == [built |-> FALSE]
NoCall == [signal |-> "None"]

(***************************************************************************)
(* Components (weblate.trans.models.Component): the fields this module     *)
(* reads, project and linked_component.  c2 and c3 share the repository of *)
(* c1; c1 and c2 are in one project, c3 in another.  A linked component is *)
(* never itself a link.                                                    *)
(***************************************************************************)
Components == {"c1", "c2", "c3"}

project(component) ==
    CASE component = "c1" -> "p1"
      [] component = "c2" -> "p1"
      [] component = "c3" -> "p2"
      [] OTHER -> "None"

linked_component(component) ==
    CASE component = "c2" -> "c1"
      [] component = "c3" -> "c1"
      [] OTHER -> NoComponent

(***************************************************************************)
(* Event types and the handler method name of each.                        *)
(***************************************************************************)
EventTypes ==
    {"EVENT_POST_PUSH", "EVENT_POST_UPDATE", "EVENT_PRE_COMMIT",
     "EVENT_POST_COMMIT", "EVENT_POST_ADD", "EVENT_UNIT_PRE_CREATE",
     "EVENT_STORE_POST_LOAD", "EVENT_UNIT_POST_SAVE", "EVENT_PRE_UPDATE",
     "EVENT_PRE_PUSH", "EVENT_COMPONENT_UPDATE"}

EVENT_STRING(event_type) ==
    CASE event_type = "EVENT_POST_PUSH" -> "post_push"
      [] event_type = "EVENT_POST_UPDATE" -> "post_update"
      [] event_type = "EVENT_PRE_COMMIT" -> "pre_commit"
      [] event_type = "EVENT_POST_COMMIT" -> "post_commit"
      [] event_type = "EVENT_POST_ADD" -> "post_add"
      [] event_type = "EVENT_UNIT_PRE_CREATE" -> "unit_pre_create"
      [] event_type = "EVENT_STORE_POST_LOAD" -> "store_post_load"
      [] event_type = "EVENT_UNIT_POST_SAVE" -> "unit_post_save"
      [] event_type = "EVENT_PRE_UPDATE" -> "pre_update"
      [] event_type = "EVENT_PRE_PUSH" -> "pre_push"
      [] event_type = "EVENT_COMPONENT_UPDATE" -> "component_update"
      [] OTHER -> "None"

(***************************************************************************)
(* The add-on registry ADDONS: the classes registered by name, with the    *)
(* scope flags each class declares and the handler methods it has.         *)
(***************************************************************************)
ADDONS == {"plain", "proj", "repo"}

ClassProjectScope(name) == name = "proj"

ClassRepoScope(name) == name = "repo"

\* The events each class subscribes its installations to (cls.events).
ClassEvents(name) ==
    CASE name = "plain" -> <<"EVENT_PRE_PUSH", "EVENT_POST_UPDATE">>
      [] name = "proj" -> <<"EVENT_POST_UPDATE", "EVENT_PRE_COMMIT">>
      [] OTHER -> <<"EVENT_PRE_PUSH", "EVENT_POST_UPDATE", "EVENT_PRE_COMMIT">>

\* hasattr(addon_object, method): "plain" has no pre_push method and "proj"
\* has no post_update method; every other method exists on every class.
HasAttr(name, method) ==
    /\ ~(name = "plain" /\ method = "pre_push")
    /\ ~(name = "proj" /\ method = "post_update")

(***************************************************************************)
(* Field values.                                                           *)
(***************************************************************************)
PKs == 1..MaxAddons

StateValues == {"s0", "s1"}

\* The configuration blob is opaque to this module: it is only stored.
ConfigurationValues == {"cfg0"}

\* The events arguments configure_events is called with (lists, which may
\* repeat a value).
EventLists ==
    {<<>>,
     <<"EVENT_POST_UPDATE">>,
     <<"EVENT_PRE_PUSH", "EVENT_POST_UPDATE">>,
     <<"EVENT_PRE_COMMIT", "EVENT_PRE_COMMIT">>}

SeqToSet(s) == {s[i] : i \in 1..Len(s)}

VARIABLES
    addon_rows,     \* the Addon table: pk -> row, for the stored pks (a row
                    \* also remembers the component it was installed on)
    next_pk,        \* the next primary key the database hands out
    event_rows,     \* the Event table: number of rows per (addon pk, event)
    addons_cache,   \* per component: the cached add-ons, or NoCache
    pc,             \* "idle", or the dispatch loop that is running / done
    call,           \* the arguments of the running dispatch
    addon_list,     \* the list the running dispatch iterates over
    idx,            \* position of the next add-on in addon_list
    outcome,        \* how the dispatch ended: running / returned / raised
    visited,        \* add-ons the loop has taken from the list, in order
    invoked,        \* handler invocations <<pk, method>>, in order
    handled,        \* add-ons handle_addon_error was called for, in order
    reported,       \* add-on names passed to report_error, in order
    results,        \* how each handler call ended (and what can_install
                    \* answered, for a call that raised), in order
    disabled,       \* add-ons the dispatch has called disable() on, in order
    uninstalled     \* add-ons some dispatch has called disable() on

vars == <<addon_rows, next_pk, event_rows, addons_cache,
          pc, call, addon_list, idx, outcome, visited, invoked, handled,
          reported, results, disabled, uninstalled>>

dispatch_vars == <<pc, call, addon_list, idx, outcome, visited, invoked,
                   handled, reported, results, disabled>>

Persisted == DOMAIN addon_rows

\* addon.event_set as a set of event types
event_set(pk) == {e \in EventTypes : event_rows[pk][e] > 0}

NoEvents == [e \in EventTypes |-> 0]

(***************************************************************************)
(* AddonQuerySet.filter_component: the four Q objects, OR-ed.              *)
(***************************************************************************)
Q1(a, component) == a.component = component /\ a.project_scope = FALSE

\* Faulty variant: the project filter without its scope flag.
Q2_without_scope_flag(a, component) ==
    project(a.component) = project(component)

Q2(a, component) ==
    project(a.component) = project(component) /\ a.project_scope = TRUE

Q3(a, component) ==
    linked_component(a.component) = component /\ a.repo_scope = TRUE

Q4(a, component) ==
    a.component = linked_component(component) /\ a.repo_scope = TRUE

filter_component(component) ==
    {pk \in Persisted :
        \/ Q1(addon_rows[pk], component)
        \/ Q2(addon_rows[pk], component)
        \/ Q3(addon_rows[pk], component)
        \/ Q4(addon_rows[pk], component)}

(***************************************************************************)
(* Addon.save.  obj is the in-memory Addon object (obj.pk = 0 when it has  *)
(* no primary key yet).  The scope flags are overwritten from the class,   *)
(* a repo-scoped add-on is reallocated to the linked component, the cache  *)
(* of the resulting component is dropped, and the framework's save()       *)
(* writes all fields, or only those of update_fields.  (The Change row     *)
(* written by store_change belongs to another table and is not modelled.)  *)
(***************************************************************************)
\* Faulty variant: the object's own flag is kept.
save_project_scope_kept(obj) == obj.project_scope

save_project_scope(obj) == ClassProjectScope(obj.name)

save_repo_scope(obj) == ClassRepoScope(obj.name)

\* Faulty variant: no reallocation to the repository.
save_component_not_reallocated(obj) == obj.component

save_component(obj) ==
    IF save_repo_scope(obj) /\ linked_component(obj.component) /= NoComponent
    THEN linked_component(obj.component)
    ELSE obj.component

SavedRow(obj) ==
    [name |-> obj.name,
     component |-> save_component(obj),
     project_scope |-> save_project_scope(obj),
     repo_scope |-> save_repo_scope(obj),
     state |-> obj.state,
     configuration |-> obj.configuration,
     installed_on |-> obj.installed_on]

\* component.drop_addons_cache()
drop_addons_cache(cache, component) == [cache EXCEPT ![component] = NoCache]

\* Faulty variant: the cache is dropped before the reallocation.
save_cache_component_before_reallocation(obj) == obj.component

\* The component whose cache save() drops: self.component, after the
\* reallocation.
save_cache_component(obj) == save_component(obj)

save(obj, force_insert, state_only) ==
    /\ addons_cache' = drop_addons_cache(addons_cache, save_cache_component(obj))
    /\ IF obj.pk = 0
       THEN /\ addon_rows' = addon_rows @@ (next_pk :> SavedRow(obj))
            /\ next_pk' = next_pk + 1
       ELSE /\ addon_rows' =
                 [addon_rows EXCEPT ![obj.pk] =
                     IF state_only
                     THEN [@ EXCEPT !.state = obj.state]
                     ELSE SavedRow(obj)]
            /\ next_pk' = next_pk

\* Addon.objects.create(component=..., name=..., configuration=...): a new
\* object, whose scope flags are the field defaults (False), saved with
\* force_insert.
NewAddon(name, component, configuration) ==
    [pk |-> 0, name |-> name, component |-> component,
     project_scope |-> FALSE, repo_scope |-> FALSE,
     state |-> "s0", configuration |-> configuration,
     installed_on |-> component]

CreateAddon(name, component, configuration) ==
    /\ pc = "idle"
    /\ next_pk <= MaxAddons
    /\ save(NewAddon(name, component, configuration), TRUE, FALSE)
    /\ UNCHANGED <<event_rows, dispatch_vars, uninstalled>>

Create ==
    \E name \in ADDONS, component \in Components,
       configuration \in ConfigurationValues :
        CreateAddon(name, component, configuration)

\* The in-memory object of a stored row.
Loaded(pk) == addon_rows[pk] @@ [pk |-> pk]

\* A stored add-on is loaded, given a configuration (and whatever scope
\* flags the caller leaves on the object) and saved in full.
SaveExistingOf(pk, configuration, ps, rs) ==
    /\ pc = "idle"
    /\ pk \in Persisted
    /\ save([Loaded(pk) EXCEPT !.configuration = configuration,
                               !.project_scope = ps, !.repo_scope = rs],
            FALSE, FALSE)
    /\ UNCHANGED <<event_rows, dispatch_vars, uninstalled>>

SaveExisting ==
    \E pk \in PKs, configuration \in ConfigurationValues,
       ps \in BOOLEAN, rs \in BOOLEAN :
        SaveExistingOf(pk, configuration, ps, rs)

\* A stored add-on is loaded, its state is changed and it is saved with
\* update_fields=["state"].
SaveStateOf(pk, state) ==
    /\ pc = "idle"
    /\ pk \in Persisted
    /\ save([Loaded(pk) EXCEPT !.state = state], FALSE, TRUE)
    /\ UNCHANGED <<event_rows, dispatch_vars, uninstalled>>

SaveState ==
    \E pk \in PKs, state \in StateValues : SaveStateOf(pk, state)

(***************************************************************************)
(* Addon.configure_events: get_or_create one Event per element of events,  *)
(* then delete the add-on's Event rows of every other event type.          *)
(***************************************************************************)
\* Faulty variant: a row is created whether or not one exists.
always_create(rows, event) == [rows EXCEPT ![event] = @ + 1]

get_or_create(rows, event) ==
    IF rows[event] > 0 THEN rows ELSE [rows EXCEPT ![event] = @ + 1]

RECURSIVE get_or_create_all(_, _, _)
get_or_create_all(rows, events, i) ==
    IF i > Len(events)
    THEN rows
    ELSE get_or_create_all(get_or_create(rows, events[i]), events, i + 1)

exclude_delete(rows, events) ==
    [e \in EventTypes |-> IF e \in SeqToSet(events) THEN rows[e] ELSE 0]

configure_events(pk, events) ==
    event_rows' =
        [event_rows EXCEPT ![pk] =
            exclude_delete(get_or_create_all(@, events, 1), events)]

ConfigureEventsOf(pk, events) ==
    /\ pc = "idle"
    /\ pk \in Persisted
    /\ UNCHANGED <<addon_rows, next_pk, addons_cache,
                   dispatch_vars, uninstalled>>
    /\ configure_events(pk, events)

ConfigureEvents ==
    \E pk \in PKs, events \in EventLists : ConfigureEventsOf(pk, events)

\* Installing an add-on (the add-on class's create()): the record is created
\* and subscribed to the events of its class.
Install ==
    \E name \in ADDONS, component \in Components,
       configuration \in ConfigurationValues :
        /\ pc = "idle"
        /\ next_pk <= MaxAddons
        /\ save(NewAddon(name, component, configuration), TRUE, FALSE)
        /\ configure_events(next_pk, ClassEvents(name))
        /\ UNCHANGED <<dispatch_vars, uninstalled>>

(***************************************************************************)
(* Addon.delete, called on the in-memory object obj of row pk.  The        *)
(* framework's delete() refuses an object whose primary key is None        *)
(* (raising an exception that is not a database error), and otherwise      *)
(* removes the row, if it is still there, together with its Event rows     *)
(* (on_delete CASCADE), and sets the object's pk to None.                  *)
(***************************************************************************)
delete_raises(obj) == ~obj.has_pk

delete(pk, obj) ==
    /\ IF delete_raises(obj)
       THEN UNCHANGED <<addon_rows, event_rows>>
       ELSE /\ addon_rows' = [p \in Persisted \ {pk} |-> addon_rows[p]]
            /\ event_rows' = [event_rows EXCEPT ![pk] = NoEvents]
    /\ next_pk' = next_pk

\* Addon.disable: log a warning, then delete.
disable(pk, obj) == delete(pk, obj)

\* A stored add-on is loaded and deleted (an uninstall by the user).
Delete ==
    \E pk \in Persisted :
        /\ pc = "idle"
        /\ delete(pk, [name |-> addon_rows[pk].name, has_pk |-> TRUE])
        /\ UNCHANGED <<addons_cache, dispatch_vars, uninstalled>>

(***************************************************************************)
(* Component.addons_cache and Component.drop_addons_cache (the component   *)
(* model is outside this file).  The cache is built on first use from      *)
(* filter_component(component) with the prefetched event_set of each       *)
(* add-on, and kept until it is dropped.  The cached Addon objects are     *)
(* in-memory copies of their rows; the order of the query's result is not  *)
(* determined by the query.                                                *)
(***************************************************************************)
Orderings(S) ==
    {order \in [1..Cardinality(S) -> S] :
        \A i, j \in 1..Cardinality(S) : order[i] = order[j] => i = j}

CachedObject(pk) ==
    [name |-> addon_rows[pk].name,
     repo_scope |-> addon_rows[pk].repo_scope,
     has_pk |-> TRUE,
     events |-> event_set(pk)]

BuildCache(component, order) ==
    [built |-> TRUE,
     order |-> order,
     objs |-> [pk \in filter_component(component) |-> CachedObject(pk)]]

\* The value of component.addons_cache after it has been read.
CacheAfterRead(component, order) ==
    IF addons_cache[component] = NoCache
    THEN [addons_cache EXCEPT ![component] = BuildCache(component, order)]
    ELSE addons_cache

\* AddonQuerySet.filter_event: component.addons_cache[event]
filter_event(cache, component, event) ==
    SelectSeq(cache[component].order,
              LAMBDA pk : event \in cache[component].objs[pk].events)

\* A caller reads component.addons_cache outside a dispatch loop (as
\* Addon.objects.filter_event(component, event) does for any event), with
\* the component object of its request.
ReadAddonsCacheOf(component) ==
    /\ pc = "idle"
    /\ \A c \in Components \ {component} : addons_cache[c] = NoCache
    /\ \E order \in Orderings(filter_component(component)) :
          addons_cache' = CacheAfterRead(component, order)
    /\ UNCHANGED <<addon_rows, next_pk, event_rows, dispatch_vars,
                   uninstalled>>

ReadAddonsCache == \E component \in Components : ReadAddonsCacheOf(component)

(***************************************************************************)
(* The subjects of the signals: translations and units, each belonging to  *)
(* one component.                                                          *)
(***************************************************************************)
Translations == {"c1/cs", "c2/cs", "c3/cs"}

translation_component(translation) ==
    CASE translation = "c1/cs" -> "c1"
      [] translation = "c2/cs" -> "c2"
      [] translation = "c3/cs" -> "c3"
      [] OTHER -> NoComponent

Units == {"c1/cs/1", "c2/cs/1", "c3/cs/1"}

unit_translation(unit) ==
    CASE unit = "c1/cs/1" -> "c1/cs"
      [] unit = "c2/cs/1" -> "c2/cs"
      [] unit = "c3/cs/1" -> "c3/cs"
      [] OTHER -> NoObject

\* What a handler call can do: return, raise a database error, or raise
\* any other exception.
HandlerResults == {"ok", "DatabaseError", "Exception"}

(***************************************************************************)
(* Entering a dispatch loop: the list is read from the component's cache   *)
(* once; an empty list ends the loop at once.  A request sends its signals *)
(* with one component object: no other component object holds a cache      *)
(* while it runs (EndRequest discards the objects of a finished request).  *)
(***************************************************************************)
StartLoop(loop, signal, subject, component, event_type, translation, logger, child) ==
    /\ pc = "idle"
    /\ \A c \in Components \ {component} : addons_cache[c] = NoCache
    /\ \E order \in Orderings(filter_component(component)) :
          /\ addons_cache' = CacheAfterRead(component, order)
          /\ addon_list' = filter_event(addons_cache', component, event_type)
    /\ pc' = loop
    /\ call' = [signal |-> signal, subject |-> subject,
                component |-> component, event_type |-> event_type,
                translation |-> translation, logger |-> logger,
                child |-> child]
    /\ idx' = 1
    /\ outcome' = IF addon_list' = <<>> THEN "returned" ELSE "running"
    /\ visited' = <<>>
    /\ invoked' = <<>>
    /\ handled' = <<>>
    /\ reported' = <<>>
    /\ results' = <<>>
    /\ disabled' = <<>>
    /\ UNCHANGED <<addon_rows, next_pk, event_rows, uninstalled>>

\* handle_addon_event(sender, component, event_type, translation=...):
\* the loop logs on the translation keyword argument.
handle_addon_event(signal, subject, component, event_type, translation) ==
    StartLoop("handle_addon_event", signal, subject, component, event_type,
              translation, translation, FALSE)

(***************************************************************************)
(* handle_addon_error(addon, component): report the error; if the add-on   *)
(* can no longer be installed on the component, disable it.  addon is the  *)
(* cached object the loop holds.  The call raises when delete() does.      *)
(***************************************************************************)
\* Faulty variant: the failing add-on is disabled unconditionally.
ShouldDisable_always(can_install) == TRUE

\* if not addon.addon.can_install(component, None)
ShouldDisable(can_install) == ~can_install

handle_addon_error_raises(obj, can_install) ==
    ShouldDisable(can_install) /\ delete_raises(obj)

handle_addon_error(pk, component, can_install) ==
    LET obj == addons_cache[component].objs[pk] IN
    /\ reported' = Append(reported, obj.name)
    /\ handled' = Append(handled, pk)
    /\ IF ShouldDisable(can_install)
       THEN /\ uninstalled' = uninstalled \cup {pk}
            /\ disabled' = Append(disabled, pk)
            /\ disable(pk, obj)
            /\ addons_cache' =
                 IF delete_raises(obj)
                 THEN addons_cache
                 ELSE [addons_cache EXCEPT
                          ![component].objs[pk].has_pk = FALSE]
       ELSE UNCHANGED <<uninstalled, disabled, addon_rows, next_pk,
                        event_rows, addons_cache>>

(***************************************************************************)
(* One pass of a loop body after the handler call (or the attribute        *)
(* lookup) ended with result: the except and else clauses, and the move    *)
(* to the next add-on or out of the loop.                                  *)
(***************************************************************************)
\* Faulty variant: the loop skips the add-on after the current one.
Advance_skipping(raised) ==
    IF raised /= "none"
    THEN /\ outcome' = raised
         /\ idx' = idx
    ELSE /\ idx' = idx + 2
         /\ outcome' =
              IF idx + 2 > Len(addon_list) THEN "returned" ELSE "running"

Advance(raised) ==
    IF raised /= "none"
    THEN /\ outcome' = raised
         /\ idx' = idx
    ELSE /\ idx' = idx + 1
         /\ outcome' =
              IF idx + 1 > Len(addon_list) THEN "returned" ELSE "running"

Result(pk, result, can_install) ==
    [pk |-> pk, result |-> result, can_install |-> can_install]

\* Faulty variant: database errors are caught like any other exception.
IsDatabaseError_never(result) == FALSE

\* except DjangoDatabaseError: raise
IsDatabaseError(result) == result = "DatabaseError"

TryExcept(pk, result) ==
    IF IsDatabaseError(result)
    THEN /\ results' = Append(results, Result(pk, result, TRUE))
         /\ Advance("DatabaseError")
         /\ UNCHANGED <<handled, reported, uninstalled, disabled, addon_rows,
                        next_pk, event_rows, addons_cache>>
    ELSE IF result /= "ok"
    THEN \E can_install \in BOOLEAN :
            /\ results' = Append(results, Result(pk, result, can_install))
            /\ handle_addon_error(pk, call.component, can_install)
            /\ Advance(IF handle_addon_error_raises(
                              addons_cache[call.component].objs[pk],
                              can_install)
                       THEN "Exception" ELSE "none")
    ELSE /\ results' = Append(results, Result(pk, result, TRUE))
         /\ Advance("none")
         /\ UNCHANGED <<handled, reported, uninstalled, disabled, addon_rows,
                        next_pk, event_rows, addons_cache>>

\* The body of the loop of handle_addon_event for the add-on at idx.
HandleAddonEventStep ==
    /\ pc = "handle_addon_event"
    /\ outcome = "running"
    /\ LET pk == addon_list[idx]
           obj == addons_cache[call.component].objs[pk]
           event_string == EVENT_STRING(call.event_type)
       IN  /\ visited' = Append(visited, pk)
           /\ IF HasAttr(obj.name, event_string)
              THEN /\ invoked' = Append(invoked, <<pk, event_string>>)
                   /\ \E result \in HandlerResults : TryExcept(pk, result)
              ELSE /\ invoked' = invoked
                   /\ results' = results
                   /\ Advance("none")
                   /\ UNCHANGED <<handled, reported, uninstalled, disabled,
                                  addon_rows, next_pk, event_rows,
                                  addons_cache>>
    /\ UNCHANGED <<pc, call, addon_list>>

\* The body of the loop of the post_update receiver for the add-on at idx.
\* A missing post_update attribute is an AttributeError inside the try.
PostUpdateStep ==
    /\ pc = "post_update"
    /\ outcome = "running"
    /\ LET pk == addon_list[idx]
           obj == addons_cache[call.component].objs[pk]
       IN  /\ visited' = Append(visited, pk)
           /\ IF call.child /\ obj.repo_scope
              THEN /\ invoked' = invoked
                   /\ results' = results
                   /\ Advance("none")
                   /\ UNCHANGED <<handled, reported, uninstalled, disabled,
                                  addon_rows, next_pk, event_rows,
                                  addons_cache>>
              ELSE IF HasAttr(obj.name, "post_update")
              THEN /\ invoked' = Append(invoked, <<pk, "post_update">>)
                   /\ \E result \in HandlerResults : TryExcept(pk, result)
              ELSE /\ invoked' = invoked
                   /\ TryExcept(pk, "Exception")
    /\ UNCHANGED <<pc, call, addon_list>>

\* The dispatch has returned or raised; control is back with the caller.
Return ==
    /\ pc /= "idle"
    /\ outcome /= "running"
    /\ pc' = "idle"
    /\ call' = NoCall
    /\ addon_list' = <<>>
    /\ idx' = 1
    /\ outcome' = "none"
    /\ visited' = <<>>
    /\ invoked' = <<>>
    /\ handled' = <<>>
    /\ reported' = <<>>
    /\ results' = <<>>
    /\ disabled' = <<>>
    /\ UNCHANGED <<addon_rows, next_pk, event_rows, addons_cache, uninstalled>>

\* The component objects of the finished request are discarded, and their
\* caches with them; the next request loads fresh ones.
EndRequest ==
    /\ pc = "idle"
    /\ \E c \in Components : addons_cache[c] /= NoCache
    /\ addons_cache' = [c \in Components |-> NoCache]
    /\ UNCHANGED <<addon_rows, next_pk, event_rows, dispatch_vars,
                   uninstalled>>

(***************************************************************************)
(* The signal receivers.                                                   *)
(***************************************************************************)
pre_push ==
    \E component \in Components :
        handle_addon_event("vcs_pre_push", component, component,
                           "EVENT_PRE_PUSH", component)

post_push ==
    \E component \in Components :
        handle_addon_event("vcs_post_push", component, component,
                           "EVENT_POST_PUSH", component)

post_update ==
    \E component \in Components, child \in BOOLEAN :
        StartLoop("post_update", "vcs_post_update", component, component,
                  "EVENT_POST_UPDATE", NoObject, component, child)

component_update ==
    \E component \in Components :
        handle_addon_event("component_post_update", component, component,
                           "EVENT_COMPONENT_UPDATE", component)

pre_update ==
    \E component \in Components :
        handle_addon_event("vcs_pre_update", component, component,
                           "EVENT_PRE_UPDATE", component)

\* Faulty variant: the receiver dispatches another event type.
pre_commit_as_post_commit ==
    \E translation \in Translations :
        handle_addon_event("vcs_pre_commit", translation,
                           translation_component(translation),
                           "EVENT_POST_COMMIT", translation)

pre_commit ==
    \E translation \in Translations :
        handle_addon_event("vcs_pre_commit", translation,
                           translation_component(translation),
                           "EVENT_PRE_COMMIT", translation)

post_commit ==
    \E component \in Components :
        handle_addon_event("vcs_post_commit", component, component,
                           "EVENT_POST_COMMIT", component)

post_add ==
    \E translation \in Translations :
        handle_addon_event("translation_post_add", translation,
                           translation_component(translation),
                           "EVENT_POST_ADD", translation)

unit_pre_create_handler ==
    \E unit \in Units :
        handle_addon_event("unit_pre_create", unit,
                           translation_component(unit_translation(unit)),
                           "EVENT_UNIT_PRE_CREATE", unit_translation(unit))

unit_post_save_handler ==
    \E instance \in Units :
        handle_addon_event("post_save", instance,
                           translation_component(unit_translation(instance)),
                           "EVENT_UNIT_POST_SAVE", unit_translation(instance))

store_post_load_handler ==
    \E translation \in Translations :
        handle_addon_event("store_post_load", translation,
                           translation_component(translation),
                           "EVENT_STORE_POST_LOAD", translation)

Init ==
    /\ addon_rows = <<>>
    /\ next_pk = 1
    /\ event_rows = [pk \in PKs |-> NoEvents]
    /\ addons_cache = [c \in Components |-> NoCache]
    /\ pc = "idle"
    /\ call = NoCall
    /\ addon_list = <<>>
    /\ idx = 1
    /\ outcome = "none"
    /\ visited = <<>>
    /\ invoked = <<>>
    /\ handled = <<>>
    /\ reported = <<>>
    /\ results = <<>>
    /\ disabled = <<>>
    /\ uninstalled = {}

\* The stored records alone: creation, saving and deletion.
NextData ==
    \/ Create
    \/ SaveExisting
    \/ SaveState
    \/ Delete

SpecData == Init /\ [][NextData]_vars

\* The subscriptions of the stored records.
NextEvents ==
    \/ Create
    \/ ConfigureEvents
    \/ Delete

SpecEvents == Init /\ [][NextEvents]_vars

\* Installations, saves and uninstallations between reads of the cached
\* add-on lists of the component objects of one request.
NextCache ==
    \/ Install
    \/ SaveExisting
    \/ SaveState
    \/ Delete
    \/ ReadAddonsCache
    \/ EndRequest

SpecCache == Init /\ [][NextCache]_vars

\* Installations, uninstallations and the dispatch of events.
Next ==
    \/ Install
    \/ SaveExisting
    \/ Delete
    \/ EndRequest
    \/ pre_push
    \/ post_push
    \/ post_update
    \/ component_update
    \/ pre_update
    \/ pre_commit
    \/ post_commit
    \/ post_add
    \/ unit_pre_create_handler
    \/ unit_post_save_handler
    \/ store_post_load_handler
    \/ HandleAddonEventStep
    \/ PostUpdateStep
    \/ Return

Spec == Init /\ [][Next]_vars

(***************************************************************************)
(* Properties.                                                             *)
(***************************************************************************)
IsPrefix(s, t) == Len(s) <= Len(t) /\ s = SubSeq(t, 1, Len(s))

Last(s) == s[Len(s)]

\* The add-ons of the running dispatch whose handler call raised result.
ResultPks(result) ==
    LET raised == SelectSeq(results, LAMBDA r : r.result = result)
    IN  [i \in 1..Len(raised) |-> raised[i].pk]

Dispatching == pc /= "idle"

\* C1: in both dispatch loops a handler exception that is not a database
\* error never reaches the caller of the dispatch: handle_addon_error runs
\* for that add-on, and the loop goes on to every remaining add-on of the
\* list (so that a dispatch which no database error interrupted ends by
\* returning, with the whole list visited).
C1_ExceptionContained ==
    Dispatching =>
        /\ outcome /= "Exception"
        /\ handled = ResultPks("Exception")
        /\ (outcome \notin {"running", "DatabaseError"}
                => outcome = "returned" /\ visited = addon_list)

\* C2: filter_component(C) returns exactly the records that are (1) on C
\* and not project-scoped, (2) project-scoped on a component of C's
\* project, (3) repo-scoped on a component linked to C, or (4) repo-scoped
\* on C's linked component; so a record with both flags false is returned
\* for its own component only, and a project-scoped record is returned for
\* every component of its project.
C2_ScopeResolution ==
    /\ \A C \in Components :
          filter_component(C) =
            {pk \in Persisted :
                LET A == addon_rows[pk] IN
                \/ (A.component = C /\ ~A.project_scope)
                \/ (A.project_scope /\ project(A.component) = project(C))
                \/ (A.repo_scope /\ linked_component(A.component) = C)
                \/ (A.repo_scope /\ A.component = linked_component(C))}
    /\ \A pk \in Persisted, C \in Components :
          LET A == addon_rows[pk] IN
          /\ (~A.project_scope /\ ~A.repo_scope /\ pk \in filter_component(C)
                 => C = A.component)
          /\ (A.project_scope /\ project(C) = project(A.component)
                 => pk \in filter_component(C))

C2_Witness ==
    \E pk1, pk2 \in Persisted :
        /\ addon_rows[pk1].project_scope
        /\ addon_rows[pk1].component = "c1"
        /\ pk1 \in filter_component("c2")
        /\ pk1 \notin filter_component("c3")
        /\ addon_rows[pk2].repo_scope
        /\ addon_rows[pk2].component = "c1"
        /\ filter_component("c3") = {pk2}
        /\ filter_component("c2") = {pk1, pk2}

\* C3: handle_addon_event visits the add-ons of filter_event(component,
\* event_type) one after another in list order, each once; it invokes the
\* method named EVENT_STRING[event_type], once, on exactly the visited
\* add-ons that have that attribute, and nothing (and no error handling) on
\* the others; it returns only when the whole list has been visited.
C3_LinearDispatch ==
    pc = "handle_addon_event" =>
        LET event_string == EVENT_STRING(call.event_type)
            objs == addons_cache[call.component].objs
            with_method ==
                SelectSeq(visited,
                          LAMBDA pk : HasAttr(objs[pk].name, event_string))
        IN  /\ addon_list =
                 filter_event(addons_cache, call.component, call.event_type)
            /\ \A i, j \in 1..Len(addon_list) :
                  addon_list[i] = addon_list[j] => i = j
            /\ IsPrefix(visited, addon_list)
            /\ (outcome = "running" => Len(visited) = idx - 1)
            /\ invoked =
                 [i \in 1..Len(with_method) |-> <<with_method[i], event_string>>]
            /\ Len(results) = Len(invoked)
            /\ \A i \in 1..Len(results) : results[i].pk = invoked[i][1]
            /\ IsPrefix(handled, ResultPks("Exception"))
            /\ (outcome = "returned" => visited = addon_list)

C3_Witness ==
    /\ pc = "handle_addon_event"
    /\ outcome = "returned"
    /\ Len(addon_list) = 2
    /\ Len(visited) = 2
    /\ Len(invoked) = 1
    /\ invoked[1][1] = addon_list[2]
    /\ handled = <<>>

\* C4: after configure_events(events) the add-on's subscribed event types
\* are exactly the values of events; there is never more than one Event row
\* per (add-on, event type); and configure_events with the events the
\* add-on is already subscribed to changes nothing.
AtMostOneEventRow == \A pk \in PKs, e \in EventTypes : event_rows[pk][e] <= 1

C4_EventSubscriptions ==
    /\ AtMostOneEventRow
    /\ [][/\ AtMostOneEventRow'
          /\ \A pk \in PKs, events \in EventLists :
                ConfigureEventsOf(pk, events) =>
                   /\ {e \in EventTypes : event_rows'[pk][e] > 0}
                          = SeqToSet(events)
                   /\ \A other \in PKs \ {pk} :
                          event_rows'[other] = event_rows[other]
                   /\ (event_set(pk) = SeqToSet(events)
                          => event_rows' = event_rows)]_vars

C4_Witness ==
    \E pk1, pk2 \in Persisted :
        /\ event_set(pk1) = {"EVENT_PRE_COMMIT"}
        /\ event_rows[pk1]["EVENT_PRE_COMMIT"] = 1
        /\ event_set(pk2) = {"EVENT_PRE_PUSH", "EVENT_POST_UPDATE"}

\* C5: every receiver dispatches the event type of its signal, on the
\* component that owns the signal's subject, and the object the loop logs
\* on (the translation argument of handle_addon_event: the translation, or
\* the component for a component-level signal) is never None.
SignalEvent(signal) ==
    CASE signal = "vcs_pre_push" -> "EVENT_PRE_PUSH"
      [] signal = "vcs_post_push" -> "EVENT_POST_PUSH"
      [] signal = "vcs_post_update" -> "EVENT_POST_UPDATE"
      [] signal = "component_post_update" -> "EVENT_COMPONENT_UPDATE"
      [] signal = "vcs_pre_update" -> "EVENT_PRE_UPDATE"
      [] signal = "vcs_pre_commit" -> "EVENT_PRE_COMMIT"
      [] signal = "vcs_post_commit" -> "EVENT_POST_COMMIT"
      [] signal = "translation_post_add" -> "EVENT_POST_ADD"
      [] signal = "unit_pre_create" -> "EVENT_UNIT_PRE_CREATE"
      [] signal = "post_save" -> "EVENT_UNIT_POST_SAVE"
      [] signal = "store_post_load" -> "EVENT_STORE_POST_LOAD"
      [] OTHER -> "None"

SubjectTranslation(subject) ==
    IF subject \in Units THEN unit_translation(subject) ELSE subject

SubjectComponent(subject) ==
    IF subject \in Components
    THEN subject
    ELSE translation_component(SubjectTranslation(subject))

C6_DatabaseErrorPropagates ==
    Dispatching =>
        /\ \A i \in 1..Len(results) :
              results[i].result = "DatabaseError" =>
                  /\ i = Len(results)
                  /\ outcome = "DatabaseError"
                  /\ Last(visited) = results[i].pk
                  /\ Last(invoked)[1] = results[i].pk
                  /\ Len(visited) = idx
        /\ (outcome = "DatabaseError" =>
               results /= <<>> /\ Last(results).result = "DatabaseError")
        /\ handled = ResultPks("Exception")
        /\ Len(reported) = Len(handled)
        /\ Len(disabled) <= Len(handled)

C6_Witness ==
    /\ pc = "post_update"
    /\ outcome = "DatabaseError"
    /\ Len(addon_list) = 2
    /\ idx = 1
    /\ visited = <<addon_list[1]>>
    /\ handled = <<>>
    /\ reported = <<>>

\* C7: handle_addon_error always reports the error; it disables (deletes)
\* the failing add-on exactly when can_install(component, None) is false,
\* and an add-on that is still installable keeps its record and its event
\* subscriptions unchanged.
C7_UninstallOnlyWhenIncompatible ==
    [][(Len(results') = Len(results) + 1
            /\ Last(results').result = "Exception") =>
          LET r == Last(results')
              obj == addons_cache[call.component].objs[r.pk]
          IN  /\ reported' = Append(reported, obj.name)
              /\ handled' = Append(handled, r.pk)
              /\ (r.can_install =>
                      /\ disabled' = disabled
                      /\ uninstalled' = uninstalled
                      /\ addon_rows' = addon_rows
                      /\ event_rows' = event_rows)
              /\ (~r.can_install =>
                      /\ disabled' = Append(disabled, r.pk)
                      /\ r.pk \in uninstalled'
                      /\ r.pk \notin DOMAIN addon_rows'
                      /\ event_rows'[r.pk] = NoEvents
                      /\ \A other \in DOMAIN addon_rows \ {r.pk} :
                            /\ other \in DOMAIN addon_rows'
                            /\ addon_rows'[other] = addon_rows[other]
                            /\ event_rows'[other] = event_rows[other])]_vars

C7_Witness ==
    /\ Dispatching
    /\ \E i, j \in 1..Len(results) :
          /\ results[i].result = "Exception"
          /\ results[i].can_install
          /\ results[i].pk \in Persisted
          /\ event_set(results[i].pk) /= {}
          /\ results[j].result = "Exception"
          /\ ~results[j].can_install
          /\ results[j].pk \notin Persisted
    /\ Len(reported) = 2
    /\ Len(disabled) = 1

\* C8: once handle_addon_error has disabled an add-on, no later dispatch
\* invokes a handler of that add-on, and none calls disable() on it again.
C8_DisabledStaysDisabled ==
    [][\A pk \in uninstalled :
          /\ (Len(invoked') = Len(invoked) + 1 => Last(invoked')[1] /= pk)
          /\ (Len(disabled') = Len(disabled) + 1 => Last(disabled') /= pk)
      ]_vars

\* C9: every stored add-on record carries the scope flags of the class
\* registered under its name, whatever flags the object held when it was
\* saved.
C9_ScopeFlagsFollowClass ==
    \A pk \in Persisted :
        /\ addon_rows[pk].project_scope = ClassProjectScope(addon_rows[pk].name)
        /\ addon_rows[pk].repo_scope = ClassRepoScope(addon_rows[pk].name)

C9_Witness ==
    \E pk1, pk2 \in Persisted :
        /\ addon_rows[pk1].name = "proj"
        /\ addon_rows[pk1].project_scope
        /\ ~addon_rows[pk1].repo_scope
        /\ addon_rows[pk1].state = "s1"
        /\ addon_rows[pk2].name = "repo"
        /\ addon_rows[pk2].repo_scope
        /\ ~addon_rows[pk2].project_scope

\* C10: a repo-scoped add-on saved on a component that has a linked
\* component is stored under the linked component; any other add-on stays
\* on the component it was saved on; so every stored repo-scoped record is
\* owned by a component without a linked component.
C10_RepositoryReallocation ==
    \A pk \in Persisted :
        LET A == addon_rows[pk] IN
        /\ A.component =
             IF ClassRepoScope(A.name)
                /\ linked_component(A.installed_on) /= NoComponent
             THEN linked_component(A.installed_on)
             ELSE A.installed_on
        /\ (A.repo_scope => linked_component(A.component) = NoComponent)

C10_Witness ==
    \E pk1, pk2 \in Persisted :
        /\ addon_rows[pk1].name = "repo"
        /\ addon_rows[pk1].installed_on = "c2"
        /\ addon_rows[pk1].component = "c1"
        /\ addon_rows[pk2].name = "proj"
        /\ addon_rows[pk2].installed_on = "c3"
        /\ addon_rows[pk2].component = "c3"

\* The add-ons a query of the stored records selects for component and
\* event: those of filter_component(component) subscribed to event.
Subscribed(component, event) ==
    {pk \in filter_component(component) : event \in event_set(pk)}

\* The list holds exactly the add-ons of S, each once.
ListsExactly(list, S) ==
    SeqToSet(list) = S /\ Len(list) = Cardinality(S)

\* C11: every save() of an add-on (the save of an installation, a full save
\* of a stored record, a save of the state field alone) leaves the add-ons
\* cache of the component the record is stored under (the component after
\* repository reallocation) dropped (a step either leaves the cache of
\* pk's component dropped or is no save of pk), and a cache built after a drop
\* lists for every event exactly the stored add-ons filter_component selects
\* that are subscribed to it.
C11_CacheClearedOnSave ==
    [][/\ \A pk \in PKs :
            \/ /\ pk \in DOMAIN addon_rows'
               /\ addons_cache'[addon_rows'[pk].component] = NoCache
            \/ ~ \/ \E state \in StateValues : SaveStateOf(pk, state)
                 \/ \E configuration \in ConfigurationValues,
                       ps \in BOOLEAN, rs \in BOOLEAN :
                         SaveExistingOf(pk, configuration, ps, rs)
                 \/ (pk = next_pk /\ Install)
       /\ \A C \in Components :
            (addons_cache[C] = NoCache /\ addons_cache'[C] /= NoCache)
            => \A E \in EventTypes :
                  ListsExactly(filter_event(addons_cache', C, E),
                               Subscribed(C, E))]_vars

\* A repo-scoped add-on installed on a linked component and stored under
\* the repository's component had its state saved, and the cache of the
\* component it is stored under was read afterwards: it holds the add-on.
C11_Witness ==
    \E pk \in Persisted :
        /\ addon_rows[pk].state = "s1"
        /\ addon_rows[pk].repo_scope
        /\ addon_rows[pk].installed_on /= addon_rows[pk].component
        /\ addons_cache[addon_rows[pk].component] /= NoCache
        /\ pk \in DOMAIN addons_cache[addon_rows[pk].component].objs

\* C12: between the operations (every save() and delete() completed), for
\* every component C and event type E, filter_event(C, E) returns exactly
\* the stored add-ons filter_component(C) selects that are subscribed to E,
\* whether C's cache is built or not.
C12_CacheCoherence ==
    pc = "idle" =>
        \A C \in Components, E \in EventTypes :
            addons_cache[C] /= NoCache =>
                ListsExactly(filter_event(addons_cache, C, E),
                             Subscribed(C, E))

====
